---- MODULE Spec2Model ----
(***************************************************************************)
(* CrystalBallSimulator: the useCrystalBallSolver hook                     *)
(* (src/hooks/useCrystalBallSolver.ts, kept as src/unnamed/part_002) and   *)
(* the App that calls it (src/App.tsx).                                    *)
(*                                                                         *)
(* The hook owns one SolverState {sequence, drops, foundFloor, totalDrops, *)
(* finished}, the memoised k, and the operations step, runAll and reset.   *)
(* It is rendered with the props {n, secretF}.  Every call of an operation *)
(* is followed by a render, so the `state` an operation closes over is the *)
(* state the previous operation left.                                      *)
(*                                                                         *)
(* foundFloor : number | null is modelled as a sequence of length <= 1:    *)
(* <<>> is null and <<x>> is the number x.                                 *)
(* Array indices are 0-based as in the source; a TLA+ sequence s holds the *)
(* source's s[i] at s[i + 1].                                              *)
(***************************************************************************)
EXTENDS Integers, Sequences, FiniteSets, TLC

\* Bounds of the model.
MaxN == 10       \* the largest number of floors explored
MaxCalls == 3    \* the call counters stepCalls / runCalls saturate here

VARIABLES
    n,           \* prop n of the hook
    secretF,     \* prop secretF of the hook
    k,           \* the memoised k (useMemo over [n])
    sequence,    \* state.sequence
    drops,       \* state.drops
    foundFloor,  \* state.foundFloor: <<>> (null) or <<x>>
    totalDrops,  \* state.totalDrops
    finished,    \* state.finished
    ret,         \* what the last operation returned to its caller
    stepCalls,   \* step() calls since the state was last (re)initialised, saturating
    runCalls,    \* runAll() calls since the state was last (re)initialised, saturating
    nText,       \* App: the text of the "Floors (n)" input
    fText,       \* App: the text of the "Secret f" input
    autoRunning, \* App: autoRunning
    stepIndex,   \* App: stepIndex
    playback,    \* App: iterations the delayed loop of runSimulation still has to make
    settling     \* App: the Run Simulation press no other user event has followed:
                 \* "valid" / "invalid" as applyInputs took its inputs, else "none"

vars == <<n, secretF, k, sequence, drops, foundFloor, totalDrops, finished,
          ret, stepCalls, runCalls,
          nText, fText, autoRunning, stepIndex, playback, settling>>

appVars == <<nText, fText, autoRunning, stepIndex, playback, settling>>

props == <<n, secretF, k>>

Null == <<>>

Min(a, b) == IF a <= b THEN a ELSE b

Bump(c) == IF c < MaxCalls THEN c + 1 ELSE c

-----------------------------------------------------------------------------
(* The planner: k and the phase-1 sequence *)

\* while ((kLocal * (kLocal + 1)) / 2 < n) kLocal++;
\* kLocal * (kLocal + 1) is even, so the source's floating division is exact.
RECURSIVE KLoopOffByOne(_, _)
KLoopOffByOne(kLocal, nn) ==
    IF (kLocal * (kLocal + 1)) \div 2 <= nn
    THEN KLoopOffByOne(kLocal + 1, nn)
    ELSE kLocal

RECURSIVE KLoop(_, _)
KLoop(kLocal, nn) ==
    IF (kLocal * (kLocal + 1)) \div 2 < nn
    THEN KLoop(kLocal + 1, nn)
    ELSE kLocal

ComputeK(nn) == KLoop(0, nn)

\* while (current < n && step > 0) { seq.push(current); step -= 1; current += step; }
RECURSIVE PlanLoopConstantGap(_, _, _, _)
PlanLoopConstantGap(seq, stepSize, current, nn) ==
    IF current < nn /\ stepSize > 0
    THEN PlanLoopConstantGap(Append(seq, current), stepSize, current + stepSize, nn)
    ELSE seq

RECURSIVE PlanLoopInclusive(_, _, _, _)
PlanLoopInclusive(seq, stepSize, current, nn) ==
    IF current <= nn /\ stepSize > 0
    THEN PlanLoopInclusive(Append(seq, current), stepSize - 1, current + (stepSize - 1), nn)
    ELSE seq

RECURSIVE PlanLoop(_, _, _, _)
PlanLoop(seq, stepSize, current, nn) ==
    IF current < nn /\ stepSize > 0
    THEN PlanLoop(Append(seq, current), stepSize - 1, current + (stepSize - 1), nn)
    ELSE seq

\* The planned sequence without the clamp of the empty case.
PlanSequenceNoClamp(nn, kk) ==
    PlanLoop(<<>>, kk, kk, nn)

\* The sequence the planning effect stores for n > 0.
PlanSequence(nn, kk) ==
    LET seq == PlanLoop(<<>>, kk, kk, nn)
    IN  IF Len(seq) = 0 /\ nn > 0 THEN <<Min(kk, nn - 1)>> ELSE seq

-----------------------------------------------------------------------------
(* The break predicate and the search for the first breaking drop *)

\* The break predicate with a strict comparison.
testBreaksStrict(floor, ff) == floor > ff

\* const testBreaks = (floor) => floor >= secretF, with the closed-over
\* secretF made a parameter.
testBreaks(floor, ff) == floor >= ff

\* ds.findIndex((d) => testBreaks(d)): the 0-based index of the first
\* breaking entry, -1 when there is none.
findBreakIndex(ds, ff) ==
    LET hits == {i \in 1..Len(ds) : testBreaks(ds[i], ff)}
    IN  IF hits = {} THEN -1
        ELSE (CHOOSE i \in hits : \A j \in hits : i <= j) - 1

-----------------------------------------------------------------------------
(* runAll: the batch search, as a function of what its closure holds *)

EmptyRun == [simDrops |-> <<>>, total |-> 0, found |-> Null]

Push(acc, floor) ==
    [simDrops |-> Append(acc.simDrops, floor), total |-> acc.total + 1,
     found |-> acc.found]

\* for (let lin = prevSafe + 1; lin <= f; lin++) { push; total++; if breaks { found = lin; break } }
RECURSIVE runAllBracketScanSkipFirst(_, _, _, _)
runAllBracketScanSkipFirst(lin, f, acc, ff) ==
    IF lin + 1 <= f
    THEN IF testBreaks(lin + 1, ff)
         THEN [Push(acc, lin + 1) EXCEPT !.found = <<lin + 1>>]
         ELSE runAllBracketScanSkipFirst(lin + 1, f, Push(acc, lin + 1), ff)
    ELSE acc

RECURSIVE runAllBracketScan(_, _, _, _)
runAllBracketScan(lin, f, acc, ff) ==
    IF lin <= f
    THEN IF testBreaks(lin, ff)
         THEN [Push(acc, lin) EXCEPT !.found = <<lin>>]
         ELSE runAllBracketScan(lin + 1, f, Push(acc, lin), ff)
    ELSE acc

\* The loop over state.sequence with every bracket scanned from floor 0
\* (prevSafe taken as -1 whatever i is).
RECURSIVE runAllPhase1ScanFromZero(_, _, _, _)
runAllPhase1ScanFromZero(i, acc, seq, ff) ==
    IF i < Len(seq)
    THEN LET f == seq[i + 1]
         IN  IF testBreaks(f, ff)
             THEN runAllBracketScan(0, f, Push(acc, f), ff)
             ELSE runAllPhase1ScanFromZero(i + 1, Push(acc, f), seq, ff)
    ELSE acc

\* for (let i = 0; i < state.sequence.length; i++) { ... if (testBreaks(f)) { scan; break } }
RECURSIVE runAllPhase1(_, _, _, _)
runAllPhase1(i, acc, seq, ff) ==
    IF i < Len(seq)
    THEN LET f == seq[i + 1]
             prevSafe == IF i = 0 THEN -1 ELSE seq[i]
         IN  IF testBreaks(f, ff)
             THEN runAllBracketScan(prevSafe + 1, f, Push(acc, f), ff)
             ELSE runAllPhase1(i + 1, Push(acc, f), seq, ff)
    ELSE acc

\* for (let lin = lastTested + 1; lin < n; lin++) { push; total++; if breaks { found = lin; break } }
RECURSIVE runAllFallbackScan(_, _, _, _)
runAllFallbackScan(lin, nn, acc, ff) ==
    IF lin < nn
    THEN IF testBreaks(lin, ff)
         THEN [Push(acc, lin) EXCEPT !.found = <<lin>>]
         ELSE runAllFallbackScan(lin + 1, nn, Push(acc, lin), ff)
    ELSE acc

\* The {simDrops, total, found} runAll returns, for the sequence, n and
\* secretF of the render it was created in.
runAllResult(seq, nn, ff) ==
    LET p1 == runAllPhase1(0, EmptyRun, seq, ff)
        lastTested == IF Len(p1.simDrops) > 0 THEN p1.simDrops[Len(p1.simDrops)] ELSE -1
        p2 == IF p1.found = Null
              THEN runAllFallbackScan(lastTested + 1, nn, p1, ff)
              ELSE p1
        found == IF p2.found = Null
                 THEN (IF nn = 0 THEN 0 ELSE nn - 1)
                 ELSE p2.found[1]
    IN  [simDrops |-> p2.simDrops, total |-> p2.total, found |-> found]

-----------------------------------------------------------------------------
(* The state container *)

ResetState ==
    [sequence |-> <<>>, drops |-> <<>>, foundFloor |-> Null, totalDrops |-> 0,
     finished |-> FALSE]

\* What the planning effect stores when it runs for (n, k).
PlannedState(nn, kk) ==
    IF nn <= 0
    THEN ResetState
    ELSE [sequence |-> PlanSequence(nn, kk), drops |-> <<>>, foundFloor |-> Null,
          totalDrops |-> 0, finished |-> FALSE]

SetState(s) ==
    /\ sequence' = s.sequence
    /\ drops' = s.drops
    /\ foundFloor' = s.foundFloor
    /\ totalDrops' = s.totalDrops
    /\ finished' = s.finished

\* The (n, secretF) pairs the hook is rendered with: the pairs applyInputs
\* lets through, and the (0, 0) of resetAll.
ValidConfigs == {c \in (1..MaxN) \X (0..MaxN) : c[2] < c[1]}

RenderedConfigs == ValidConfigs \cup {<<0, 0>>}

-----------------------------------------------------------------------------
(* Initial state: the hook mounted with a valid configuration, after the   *)
(* planning effect of the first render.  The App's own state is that of    *)
(* its first render: the input texts '10' and '3', nothing playing,        *)
(* stepIndex 0.                                                            *)

Init ==
    \E c \in ValidConfigs :
        /\ n = c[1]
        /\ secretF = c[2]
        /\ k = ComputeK(c[1])
        /\ LET s == PlannedState(c[1], ComputeK(c[1]))
           IN  /\ sequence = s.sequence
               /\ drops = s.drops
               /\ foundFloor = s.foundFloor
               /\ totalDrops = s.totalDrops
               /\ finished = s.finished
        /\ ret = [op |-> "mount"]
        /\ stepCalls = 0
        /\ runCalls = 0
        /\ nText = "10"
        /\ fText = "3"
        /\ autoRunning = FALSE
        /\ stepIndex = 0
        /\ playback = 0
        /\ settling = "none"

-----------------------------------------------------------------------------
(* Operations *)

\* setState((s) => ({ ...s, drops: [...s.drops, floorToTest], totalDrops: s.totalDrops + 1 }))
setPhase1DropNoCount(floorToTest) ==
    /\ drops' = Append(drops, floorToTest)
    /\ UNCHANGED <<totalDrops, foundFloor, finished>>

setPhase1Drop(floorToTest) ==
    /\ drops' = Append(drops, floorToTest)
    /\ totalDrops' = totalDrops + 1
    /\ UNCHANGED <<foundFloor, finished>>

\* setState((s) => ({ ...s, drops: newDrops, totalDrops: newTotal, foundFloor: nextLinear, finished: true }))
setFoundNotFinished(nextLinear) ==
    /\ drops' = Append(drops, nextLinear)
    /\ totalDrops' = totalDrops + 1
    /\ foundFloor' = <<nextLinear>>
    /\ UNCHANGED finished

\* The breaking scan probe recorded as a safe one: the drop is appended and
\* counted, foundFloor and finished are not set.
setFoundRecordsSafe(nextLinear) ==
    /\ drops' = Append(drops, nextLinear)
    /\ totalDrops' = totalDrops + 1
    /\ UNCHANGED <<foundFloor, finished>>

setFound(nextLinear) ==
    /\ drops' = Append(drops, nextLinear)
    /\ totalDrops' = totalDrops + 1
    /\ foundFloor' = <<nextLinear>>
    /\ finished' = TRUE

\* The safe scan probe with the floor after nextLinear recorded.
setLinearSafeSkipsFloor(nextLinear) ==
    /\ drops' = Append(drops, nextLinear + 1)
    /\ totalDrops' = totalDrops + 1
    /\ UNCHANGED <<foundFloor, finished>>

\* setState((s) => ({ ...s, drops: newDrops, totalDrops: newTotal }))
setLinearSafe(nextLinear) ==
    /\ drops' = Append(drops, nextLinear)
    /\ totalDrops' = totalDrops + 1
    /\ UNCHANGED <<foundFloor, finished>>

\* The fall-through that tests the floor after the last drop, as the
\* fallback scan of runAll does, instead of finishing.
setFinishedScansOn ==
    /\ drops' = Append(drops, IF drops = <<>> THEN 0 ELSE drops[Len(drops)] + 1)
    /\ totalDrops' = totalDrops + 1
    /\ UNCHANGED <<foundFloor, finished>>

\* setState((s) => ({ ...s, finished: true }))
setFinished ==
    /\ finished' = TRUE
    /\ UNCHANGED <<drops, foundFloor, totalDrops>>

\* A choice of floor that tests the secret floor itself as soon as a planned
\* probe has broken.
stepChoicePeeks(seq, ds, ff) ==
    LET pastBreakIndex == findBreakIndex(ds, ff)
        firstPhaseIndex == Len(ds)
    IN  IF pastBreakIndex = -1 /\ firstPhaseIndex < Len(seq)
        THEN <<seq[firstPhaseIndex + 1]>>
        ELSE IF pastBreakIndex # -1 /\ ds[Len(ds)] # ff THEN <<ff>> ELSE <<>>

\* The floor step() chooses to test past its early return, for the sequence
\* and drops of its closure and a given secret: <<floorToTest>> in phase 1,
\* <<nextLinear>> in phase 2, <<>> when it falls through without a probe.
stepChoice(seq, ds, ff) ==
    LET pastBreakIndex == findBreakIndex(ds, ff)
        firstPhaseIndex == Len(ds)
    IN  IF pastBreakIndex = -1 /\ firstPhaseIndex < Len(seq)
        THEN <<seq[firstPhaseIndex + 1]>>
        ELSE LET brokeIndex == findBreakIndex(ds, ff)
                 breakFloor == ds[brokeIndex + 1]
                 prevSafe == IF brokeIndex = 0 THEN -1 ELSE ds[brokeIndex]
                 nextLinear == prevSafe + 1 + (Len(ds) - (brokeIndex + 1))
             IN  IF brokeIndex # -1 /\ nextLinear <= breakFloor
                 THEN <<nextLinear>>
                 ELSE <<>>

\* step() past its early return: the probe it makes, or the fall-through.
stepProbe ==
    LET pastBreakIndex == findBreakIndex(drops, secretF)
        firstPhaseIndex == Len(drops)
    IN  IF pastBreakIndex = -1 /\ firstPhaseIndex < Len(sequence)
        THEN \* phase 1
             LET floorToTest == sequence[firstPhaseIndex + 1]
                 broke == testBreaks(floorToTest, secretF)
             IN  /\ setPhase1Drop(floorToTest)
                 /\ ret' = [op |-> "step",
                            action |-> IF broke THEN "break" ELSE "safe",
                            floorTested |-> floorToTest, broke |-> broke]
        ELSE \* phase 2
             LET brokeIndex == findBreakIndex(drops, secretF)
                 breakFloor == drops[brokeIndex + 1]
                 prevSafe == IF brokeIndex = 0 THEN -1 ELSE drops[brokeIndex]
                 nextLinear == prevSafe + 1 + (Len(drops) - (brokeIndex + 1))
             IN  IF brokeIndex # -1 /\ nextLinear <= breakFloor
                 THEN IF testBreaks(nextLinear, secretF)
                      THEN /\ setFound(nextLinear)
                           /\ ret' = [op |-> "step", action |-> "found",
                                      floorTested |-> nextLinear, broke |-> TRUE]
                      ELSE /\ setLinearSafe(nextLinear)
                           /\ ret' = [op |-> "step", action |-> "linear-safe",
                                      floorTested |-> nextLinear, broke |-> FALSE]
                 ELSE /\ setFinished
                      /\ ret' = [op |-> "step", action |-> "finished"]

\* step() without `if (state.finished) return { action: 'finished' }`.
stepNoEarlyReturn ==
    /\ stepCalls' = Bump(stepCalls)
    /\ UNCHANGED <<props, sequence, runCalls>>
    /\ stepProbe

\* step(): one probe of the incremental search.
step ==
    /\ stepCalls' = Bump(stepCalls)
    /\ UNCHANGED <<props, sequence, runCalls>>
    /\ IF finished
       THEN /\ ret' = [op |-> "step", action |-> "finished"]
            /\ UNCHANGED <<drops, foundFloor, totalDrops, finished>>
       ELSE stepProbe

\* runAll() with simDrops and total starting from state.drops and
\* state.totalDrops instead of [] and 0.
runAllResumes ==
    LET r == runAllResult(sequence, n, secretF)
    IN  /\ drops' = drops \o r.simDrops
        /\ totalDrops' = totalDrops + r.total
        /\ foundFloor' = <<r.found>>
        /\ finished' = TRUE
        /\ ret' = [op |-> "runAll", simDrops |-> drops \o r.simDrops,
                   total |-> totalDrops + r.total, found |-> r.found]
        /\ runCalls' = Bump(runCalls)
        /\ UNCHANGED <<props, sequence, stepCalls>>

\* runAll(): the batch search; it reads state.sequence, n and secretF only.
runAll ==
    LET r == runAllResult(sequence, n, secretF)
    IN  /\ drops' = r.simDrops
        /\ totalDrops' = r.total
        /\ foundFloor' = <<r.found>>
        /\ finished' = TRUE
        /\ ret' = [op |-> "runAll", simDrops |-> r.simDrops, total |-> r.total,
                   found |-> r.found]
        /\ runCalls' = Bump(runCalls)
        /\ UNCHANGED <<props, sequence, stepCalls>>

\* reset() that keeps the planned sequence: setState((s) => ({ ...s, drops: [], ... })).
resetKeepsSequence ==
    /\ drops' = <<>>
    /\ foundFloor' = Null
    /\ totalDrops' = 0
    /\ finished' = FALSE
    /\ ret' = [op |-> "reset"]
    /\ stepCalls' = 0
    /\ runCalls' = 0
    /\ UNCHANGED <<props, sequence>>

\* reset(): clears the state; k and the props are not touched and the
\* planning effect does not run.
reset ==
    /\ SetState(ResetState)
    /\ ret' = [op |-> "reset"]
    /\ stepCalls' = 0
    /\ runCalls' = 0
    /\ UNCHANGED props

\* The parent renders the hook with other props: k is re-memoised, and the
\* planning effect runs when its dependencies [n, k] changed.
render ==
    \E c \in RenderedConfigs :
        /\ c # <<n, secretF>>
        /\ n' = c[1]
        /\ secretF' = c[2]
        /\ k' = ComputeK(c[1])
        /\ ret' = [op |-> "render"]
        /\ IF c[1] # n \/ ComputeK(c[1]) # k
           THEN /\ SetState(PlannedState(c[1], ComputeK(c[1])))
                /\ stepCalls' = 0
                /\ runCalls' = 0
           ELSE UNCHANGED <<sequence, drops, foundFloor, totalDrops, finished,
                            stepCalls, runCalls>>

-----------------------------------------------------------------------------
(* Specifications *)

\* One search on a fixed valid configuration, driven through step and runAll.
Next ==
    \/ step /\ UNCHANGED appVars
    \/ runAll /\ UNCHANGED appVars

Spec == Init /\ [][Next]_vars

\* The hook under any caller: searches, resets and renders with new props.
HookNext ==
    \/ step /\ UNCHANGED appVars
    \/ runAll /\ UNCHANGED appVars
    \/ reset /\ UNCHANGED appVars
    \/ render /\ UNCHANGED appVars

HookSpec == Init /\ [][HookNext]_vars

-----------------------------------------------------------------------------
(* The App (src/App.tsx): the caller of the hook.                          *)
(*                                                                         *)
(* A handler runs to its end, or to its first await, on the values of the  *)
(* render it was created in; the setState calls it makes are applied       *)
(* together, the last plain setState of the solver state winning, and the  *)
(* render and the planning effect that follow are part of the same step.   *)

\* Run Simulation is not pressed when its playback would take stepIndex
\* past this bound.
MaxStepIndex == 8

\* The texts typed into the two inputs.
NTexts == {"", "0", "5", "10"}

FTexts == {"", "0", "3", "4", "7"}

NaN == <<>>

\* parseInt(text, 10) on those texts: NaN, or <<v>> for the number v.
parseInt(text) ==
    CASE text = "0" -> <<0>>
      [] text = "3" -> <<3>>
      [] text = "4" -> <<4>>
      [] text = "5" -> <<5>>
      [] text = "7" -> <<7>>
      [] text = "10" -> <<10>>
      [] OTHER -> NaN

\* The three checks of applyInputs pass.
InputsValid(nT, fT) ==
    LET nn == parseInt(nT)
        ff == parseInt(fT)
    IN  /\ ~(nn = NaN \/ ff = NaN)
        /\ ~(nn[1] <= 0)
        /\ ~(ff[1] < 0 \/ ff[1] >= nn[1])

\* The render after a handler that stored the props (nn, ff) and the solver
\* state s: k is re-memoised, and the planning effect replaces s when [n, k]
\* changed.
Commit(nn, ff, s) ==
    /\ n' = nn
    /\ secretF' = ff
    /\ k' = ComputeK(nn)
    /\ IF nn # n \/ ComputeK(nn) # k
       THEN SetState(PlannedState(nn, ComputeK(nn)))
       ELSE SetState(s)

\* The App mounted: n = 10, secretF = 3.
AppInit == Init /\ n = 10 /\ secretF = 3

\* onChangeText={setNText}
setNText ==
    \E text \in NTexts :
        /\ text # nText
        /\ nText' = text
        /\ settling' = "none"
        /\ UNCHANGED <<props, sequence, drops, foundFloor, totalDrops, finished,
                       ret, stepCalls, runCalls, fText, autoRunning, stepIndex,
                       playback>>

\* onChangeText={setFText}
setFText ==
    \E text \in FTexts :
        /\ text # fText
        /\ fText' = text
        /\ settling' = "none"
        /\ UNCHANGED <<props, sequence, drops, foundFloor, totalDrops, finished,
                       ret, stepCalls, runCalls, nText, autoRunning, stepIndex,
                       playback>>

\* The Apply button (disabled={autoRunning}): applyInputs.
applyInputs ==
    /\ ~autoRunning
    /\ settling' = "none"
    /\ UNCHANGED <<nText, fText, autoRunning, playback>>
    /\ IF InputsValid(nText, fText)
       THEN /\ Commit(parseInt(nText)[1], parseInt(fText)[1], ResetState)
            /\ stepIndex' = 0
            /\ ret' = [op |-> "reset"]
            /\ stepCalls' = 0
            /\ runCalls' = 0
       ELSE UNCHANGED <<props, sequence, drops, foundFloor, totalDrops, finished,
                        ret, stepCalls, runCalls, stepIndex>>

\* The Run Simulation button (disabled={autoRunning}): runSimulation up to
\* its first await.  applyInputs() queues the new props and the reset;
\* solver.runAll() is the runAll of this render, so it searches the sequence,
\* n and secretF of before the press, and its setState({ ...state, ... }) is
\* the last one queued.  With no drops to play the loop is skipped and
\* setAutoRunning(false) follows at once.
runSimulation ==
    LET valid == InputsValid(nText, fText)
        nn == IF valid THEN parseInt(nText)[1] ELSE n
        ff == IF valid THEN parseInt(fText)[1] ELSE secretF
        r == runAllResult(sequence, n, secretF)
        replanned == nn # n \/ ComputeK(nn) # k
    IN  /\ ~autoRunning
        /\ (IF valid THEN 0 ELSE stepIndex) + Len(r.simDrops) <= MaxStepIndex
        /\ Commit(nn, ff, [sequence |-> sequence, drops |-> r.simDrops,
                           foundFloor |-> <<r.found>>, totalDrops |-> r.total,
                           finished |-> TRUE])
        /\ stepIndex' = IF valid THEN 0 ELSE stepIndex
        /\ autoRunning' = (Len(r.simDrops) > 0)
        /\ playback' = Len(r.simDrops)
        /\ ret' = [op |-> "runAll", simDrops |-> r.simDrops, total |-> r.total,
                   found |-> r.found]
        /\ stepCalls' = IF valid \/ replanned THEN 0 ELSE stepCalls
        /\ runCalls' = IF replanned THEN 0 ELSE IF valid THEN 1 ELSE Bump(runCalls)
        /\ settling' = IF valid THEN "valid" ELSE "invalid"
        /\ UNCHANGED <<nText, fText>>

\* One iteration of the loop of runSimulation, after its 300 ms timer:
\* setStepIndex((s) => s + 1), and setAutoRunning(false) after the last one.
playbackTick ==
    /\ playback > 0
    /\ stepIndex' = stepIndex + 1
    /\ playback' = playback - 1
    /\ autoRunning' = IF playback = 1 THEN FALSE ELSE autoRunning
    /\ UNCHANGED <<props, sequence, drops, foundFloor, totalDrops, finished,
                   ret, stepCalls, runCalls, nText, fText, settling>>

\* The Reset button (never disabled): resetAll.  The render that follows
\* has n = 0, for which the planning effect resets again.
resetAll ==
    /\ nText' = "0"
    /\ fText' = "0"
    /\ Commit(0, 0, ResetState)
    /\ stepIndex' = 0
    /\ ret' = [op |-> "reset"]
    /\ stepCalls' = 0
    /\ runCalls' = 0
    /\ settling' = "none"
    /\ UNCHANGED <<autoRunning, playback>>

\* disabled={stepIndex >= solver.state.drops.length}
NextEnabled == ~(stepIndex >= Len(drops))

\* The Next button: nextStep.
nextStep ==
    /\ NextEnabled
    /\ step
    /\ stepIndex' = stepIndex + 1
    /\ settling' = "none"
    /\ UNCHANGED <<nText, fText, autoRunning, playback>>

\* The Prev button (disabled={stepIndex <= 0}): prevStep.
prevStep ==
    /\ ~(stepIndex <= 0)
    /\ stepIndex' = (IF 0 >= stepIndex - 1 THEN 0 ELSE stepIndex - 1)
    /\ settling' = "none"
    /\ UNCHANGED <<props, sequence, drops, foundFloor, totalDrops, finished,
                   ret, stepCalls, runCalls, nText, fText, autoRunning, playback>>

AppNext ==
    \/ setNText
    \/ setFText
    \/ applyInputs
    \/ runSimulation
    \/ playbackTick
    \/ resetAll
    \/ nextStep
    \/ prevStep

\* The App from its mount, under any sequence of user events and timers.
AppSpec == AppInit /\ [][AppNext]_vars

-----------------------------------------------------------------------------
(* Properties *)

\* The positions (1-based) of the breaking drops: the entries d >= secretF.
BreakingDrops == {i \in 1..Len(drops) : drops[i] >= secretF}

\* The search so far was driven by step() alone, from the planned state.
SteppedOnly == runCalls = 0

\* The last operation was a runAll() on the freshly planned state.
FreshRunAll == ret.op = "runAll" /\ stepCalls = 0 /\ runCalls = 1

\* C1: on a valid configuration, runAll() on the freshly planned state
\* returns found = secretF and stores foundFloor = secretF, finished = true.
C1_RunAllFindsSecret ==
    FreshRunAll =>
        /\ ret.found = secretF
        /\ foundFloor = <<secretF>>
        /\ finished

\* C1 witness: a fresh runAll() that found secretF above every planned probe,
\* through the fallback scan.
C1_Witness ==
    /\ FreshRunAll
    /\ findBreakIndex(sequence, secretF) = -1
    /\ Len(drops) > Len(sequence)
    /\ foundFloor = <<secretF>>

\* C2: a search driven by step() alone ends with the foundFloor and the
\* totalDrops that runAll() computes for the same configuration.
C2_StepAgreesWithRunAll ==
    (finished /\ SteppedOnly) =>
        LET r == runAllResult(sequence, n, secretF)
        IN  /\ foundFloor = <<r.found>>
            /\ totalDrops = r.total

\* C3: a search driven by step() alone, once finished, has found secretF.
C3_StepConverges ==
    (finished /\ SteppedOnly) => foundFloor = <<secretF>>

\* C4: a completed search has used at most k drops.
C4_AtMostKDrops ==
    finished => totalDrops <= k

\* C5: for n > 0, k is the smallest non-negative integer with
\* k * (k + 1) / 2 >= n.
C5_KIsSmallest ==
    n > 0 =>
        /\ k >= 0
        /\ (k * (k + 1)) \div 2 >= n
        /\ \A j \in 0..(k - 1) : (j * (j + 1)) \div 2 < n

\* C5 witness: a render that computed k = 4 for n = 7, where 4 * 5 / 2
\* exceeds n and 3 * 4 / 2 falls short of it.
C5_Witness ==
    ret.op = "render" /\ n = 7 /\ k = 4

\* The planned sequence starts at k and its i-th gap is k - i.
GapsFromK ==
    /\ sequence[1] = k
    /\ \A i \in 1..(Len(sequence) - 1) : sequence[i + 1] - sequence[i] = k - i

StrictlyIncreasing ==
    \A i \in 1..(Len(sequence) - 1) : sequence[i] < sequence[i + 1]

\* C6 as claimed: for every n > 0 the planned sequence is strictly
\* increasing, starts at k and has the gaps k - 1, k - 2, ...
C6_GapsFromK ==
    (n > 0 /\ sequence # <<>>) => (StrictlyIncreasing /\ GapsFromK)

\* C6 as amended: for every n > 0 with k < n (n >= 3) the planned sequence is
\* strictly increasing, starts at k and has the gaps k - 1, k - 2, ...; for
\* k >= n (n = 1 and n = 2) it is the single clamped floor n - 1.
C6_GapsFromKOrClamp ==
    (n > 0 /\ sequence # <<>>) =>
        IF k < n
        THEN StrictlyIncreasing /\ GapsFromK
        ELSE n <= 2 /\ sequence = <<n - 1>>

\* C6 witness: the sequence planned by a render for n = 10.
C6_Witness ==
    ret.op = "render" /\ n = 10 /\ k = 4 /\ sequence = <<4, 7, 9>>

\* C7: for n > 0 the last planned probe is at or above the top floor n - 1.
C7_LastReachesTop ==
    (n > 0 /\ sequence # <<>>) => sequence[Len(sequence)] >= n - 1

\* C8: a search on a valid configuration has at most two breaking drops, and
\* the second breaking drop is the last entry of drops.
C8_TwoBreakingProbes ==
    /\ Cardinality(BreakingDrops) <= 2
    /\ Cardinality(BreakingDrops) = 2 => Len(drops) \in BreakingDrops

\* C8 witness: step() was called after the second breaking drop and
\* appended nothing.
C8_Witness ==
    /\ Cardinality(BreakingDrops) = 2
    /\ SteppedOnly
    /\ ret.op = "step"
    /\ ret.action = "finished"
    /\ Len(drops) \in BreakingDrops

\* C9: totalDrops is the length of drops in every reachable state.
C9_TotalIsLength ==
    totalDrops = Len(drops)

\* C9 witness: a runAll() after some step() calls replaced a shorter drops.
C9_Witness ==
    /\ ret.op = "runAll"
    /\ stepCalls > 0
    /\ totalDrops = Len(drops)
    /\ totalDrops >= 3

\* C10: whenever foundFloor is set, finished is true and foundFloor is an
\* entry of drops that breaks (foundFloor >= secretF).
C10_FoundFloorDetected ==
    foundFloor # Null =>
        /\ finished
        /\ \E i \in 1..Len(drops) : drops[i] = foundFloor[1]
        /\ foundFloor[1] >= secretF

\* C11: step() in a finished state changes nothing of the state and
\* reports the terminal marker 'finished'.
C11_StepAfterFinishedIsNoOp ==
    [][(finished /\ ret'.op = "step") =>
          /\ UNCHANGED <<sequence, drops, foundFloor, totalDrops, finished>>
          /\ ret'.action = "finished"]_vars

\* C11 witness: step() was called on the finished state a runAll() left,
\* and the drops are those runAll() returned.
C11_Witness ==
    /\ finished
    /\ runCalls > 0
    /\ stepCalls > 0
    /\ ret = [op |-> "step", action |-> "finished"]
    /\ drops = runAllResult(sequence, n, secretF).simDrops
    /\ Len(drops) > 1

\* C12: for n > 0 every entry of drops is a floor index in [0, n).
C12_DropsAreValidFloors ==
    n > 0 => \A i \in 1..Len(drops) : 0 <= drops[i] /\ drops[i] < n

\* C12 witness: a runAll() whose fallback scan went up to the top floor
\* n - 1, above every planned probe.
C12_Witness ==
    /\ n > 2
    /\ ret.op = "runAll"
    /\ drops # <<>>
    /\ drops[Len(drops)] = n - 1
    /\ Len(drops) > Len(sequence)
    /\ findBreakIndex(sequence, secretF) = -1

\* C13: whenever n > 0, sequence is non-empty and is the plan for n.
C13_SequenceIsPlanned ==
    n > 0 => (sequence # <<>> /\ sequence = PlanSequence(n, k))

\* C14: a render that changes n or secretF leaves the freshly planned state:
\* sequence = plan(n), drops empty, foundFloor null, totalDrops 0, finished
\* false.
C14_ConfigChangeDiscardsState ==
    [][(ret'.op = "render" /\ n' > 0 /\ <<n', secretF'>> # <<n, secretF>>) =>
          /\ sequence' = PlanSequence(n', k')
          /\ drops' = <<>>
          /\ foundFloor' = Null
          /\ totalDrops' = 0
          /\ finished' = FALSE]_vars

IsPrefix(s, t) == Len(s) <= Len(t) /\ s = SubSeq(t, 1, Len(s))

\* C15: for n = 10, secretF = 7: k = 4, sequence = [4, 7, 9]; step() tests
\* 4, 7, 5, 6, 7 in this order; a finished search, by step() or by runAll(),
\* has drops = [4, 7, 5, 6, 7], foundFloor = 7, totalDrops = 5.
C15_ScenarioTenSeven ==
    (n = 10 /\ secretF = 7) =>
        /\ k = 4
        /\ sequence = <<4, 7, 9>>
        /\ IsPrefix(drops, <<4, 7, 5, 6, 7>>)
        /\ ret.op = "runAll" => ret.found = 7 /\ ret.total = 5
        /\ finished =>
              /\ drops = <<4, 7, 5, 6, 7>>
              /\ foundFloor = <<7>>
              /\ totalDrops = 5

\* C15 witness: the search for n = 10, secretF = 7 finished by step() alone.
C15_Witness ==
    /\ n = 10 /\ secretF = 7
    /\ SteppedOnly
    /\ finished
    /\ ret.op = "step" /\ ret.action = "found"
    /\ drops = <<4, 7, 5, 6, 7>>

BracketSpan(i) == sequence[i] - (IF i = 1 THEN -1 ELSE sequence[i - 1])

MaxBracketSpan ==
    CHOOSE m \in {BracketSpan(i) : i \in 1..Len(sequence)} :
        \A i \in 1..Len(sequence) : BracketSpan(i) <= m

\* C18: a completed search on a valid configuration has at most k plus the
\* largest bracket span drops.
C18_DropsWithinKPlusSpan ==
    finished => totalDrops <= k + MaxBracketSpan

\* C18 witness: a finished search whose scan covered the whole of the
\* largest bracket.
C18_Witness ==
    /\ finished
    /\ n = 10 /\ secretF = 4
    /\ totalDrops = 1 + MaxBracketSpan
    /\ foundFloor = <<4>>

C20_NoFloorsNoAnswer ==
    (n <= 0 /\ ret.op \in {"step", "runAll"}) =>
        /\ sequence = <<>>
        /\ drops = <<>>
        /\ totalDrops = 0
        /\ finished
        /\ foundFloor = Null

\* C21: whatever number of step() calls preceded it, runAll() leaves the
\* drops, totalDrops, foundFloor and finished of a runAll() on the freshly
\* planned state: the batch search of the planned sequence from its start.
C21_RunAllIgnoresProgress ==
    ret.op = "runAll" =>
        LET fresh == runAllResult(PlanSequence(n, ComputeK(n)), n, secretF)
        IN  /\ drops = fresh.simDrops
            /\ totalDrops = fresh.total
            /\ foundFloor = <<fresh.found>>
            /\ finished
            /\ ret.simDrops = fresh.simDrops

\* C21 witness: a runAll() made after two step() calls of an unfinished
\* search, on a configuration whose search takes more than two drops.
C21_Witness ==
    /\ ret.op = "runAll"
    /\ stepCalls = 2
    /\ runCalls = 1
    /\ n = 10
    /\ secretF = 5
    /\ drops = <<4, 7, 5>>

\* C22: reset(), from any state, stores sequence = [], drops = [],
\* foundFloor = null, totalDrops = 0 and finished = false, and leaves n, k
\* (and secretF) as they were: nothing is re-planned.
C22_ResetClearsAndKeepsK ==
    [][ret'.op = "reset" =>
        /\ sequence' = <<>>
        /\ drops' = <<>>
        /\ foundFloor' = Null
        /\ totalDrops' = 0
        /\ finished' = FALSE
        /\ n' = n
        /\ k' = k
        /\ secretF' = secretF]_vars

\* C22 witness: the state a reset() left on a configuration with floors: the
\* sequence is empty although k is still the k of n.
C22_Witness ==
    /\ ret.op = "reset"
    /\ n = 10
    /\ k = 4
    /\ sequence = <<>>
    /\ drops = <<>>
    /\ ~finished

\* The scan probes of drops: the entries after the first breaking drop.
ScanProbes ==
    LET breakIndex == findBreakIndex(drops, secretF)
    IN  IF breakIndex = -1 THEN <<>>
        ELSE SubSeq(drops, breakIndex + 2, Len(drops))

\* The floor tested just before the first breaking drop, -1 when the first
\* drop broke.
PreviousSafe ==
    LET breakIndex == findBreakIndex(drops, secretF)
    IN  IF breakIndex = 0 THEN -1 ELSE drops[breakIndex]

\* C25: in a search driven by step(), the j-th scan probe (j = 0, 1, ...)
\* is floor previousSafe + 1 + j, no scan probe is above the breaking probe's
\* floor, only the last scan probe can break, and a scan probe that breaks is
\* foundFloor and ends the search.
C25_ScanIsConsecutive ==
    (SteppedOnly /\ findBreakIndex(drops, secretF) # -1) =>
        LET breakFloor == drops[findBreakIndex(drops, secretF) + 1]
        IN  /\ \A j \in 1..Len(ScanProbes) :
                  /\ ScanProbes[j] = PreviousSafe + 1 + (j - 1)
                  /\ ScanProbes[j] <= breakFloor
                  /\ ScanProbes[j] >= secretF =>
                        /\ j = Len(ScanProbes)
                        /\ foundFloor = <<ScanProbes[j]>>
                        /\ finished
            /\ foundFloor # Null =>
                  /\ ScanProbes # <<>>
                  /\ foundFloor = <<ScanProbes[Len(ScanProbes)]>>

\* C25 witness: a scan of three probes, 5, 6 and 7, after the probe at 7
\* broke; the third is the first to break.
C25_Witness ==
    /\ SteppedOnly
    /\ n = 10
    /\ secretF = 7
    /\ drops = <<4, 7, 5, 6, 7>>
    /\ ScanProbes = <<5, 6, 7>>
    /\ foundFloor = <<7>>

\* C26: when step() has tested every planned probe and none broke, the next
\* step() stores finished = true and nothing else: drops and totalDrops are
\* unchanged, foundFloor stays null, no floor is tested.
C26_ExhaustedPlanFinishes ==
    [][(/\ SteppedOnly
        /\ ~finished
        /\ drops = sequence
        /\ findBreakIndex(drops, secretF) = -1
        /\ ret'.op = "step") =>
           /\ finished'
           /\ drops' = drops
           /\ totalDrops' = totalDrops
           /\ foundFloor = Null
           /\ foundFloor' = Null
           /\ ret' = [op |-> "step", action |-> "finished"]]_vars

\* C26 witness: n = 5, secretF = 4: the plan <<3>> was tested, nothing
\* broke, and the second step() finished the search without an answer.
C26_Witness ==
    /\ SteppedOnly
    /\ finished
    /\ n = 5
    /\ secretF = 4
    /\ sequence = <<3>>
    /\ drops = sequence
    /\ foundFloor = Null
    /\ ret = [op |-> "step", action |-> "finished"]

\* The floor the next scan step would test: previousSafe + 1 + the number
\* of scan probes made.
NextScanCandidate == PreviousSafe + 1 + Len(ScanProbes)

\* C27: in a search driven by step(), once a planned probe has broken, the
\* next scan candidate is never above the breaking probe's floor while
\* foundFloor is still null, and the search finishes only by a scan probe that
\* breaks and is stored as foundFloor.
C27_ScanNeverExhausted ==
    (SteppedOnly /\ findBreakIndex(drops, secretF) # -1) =>
        LET breakFloor == drops[findBreakIndex(drops, secretF) + 1]
        IN  /\ foundFloor = Null => NextScanCandidate <= breakFloor
            /\ foundFloor = Null => ~finished
            /\ finished =>
                  /\ ScanProbes # <<>>
                  /\ testBreaks(ScanProbes[Len(ScanProbes)], secretF)
                  /\ foundFloor = <<ScanProbes[Len(ScanProbes)]>>
            /\ ret.op = "step" /\ ret.action = "finished" => foundFloor # Null

\* C27 witness: the scan has reached the breaking probe's floor itself, the
\* last candidate, and that probe broke: n = 10, secretF = 9.
C27_Witness ==
    /\ SteppedOnly
    /\ n = 10
    /\ secretF = 9
    /\ drops = <<4, 7, 9, 8, 9>>
    /\ NextScanCandidate = 10
    /\ foundFloor = <<9>>
    /\ finished

\* C30: when some planned probe breaks (secretF <= last planned probe), the
\* drops built by step() alone until finished are, element by element, the
\* simDrops runAll() returns for the configuration, with the same foundFloor.
C30_StepEqualsRunAllWhenProbeBreaks ==
    (/\ SteppedOnly
     /\ finished
     /\ findBreakIndex(sequence, secretF) # -1) =>
        LET r == runAllResult(sequence, n, secretF)
        IN  /\ drops = r.simDrops
            /\ totalDrops = r.total
            /\ foundFloor = <<r.found>>
            /\ foundFloor = <<secretF>>

\* C30 witness: n = 8, secretF = 5, finished by step() alone: the probes 4
\* and 7, then the scan 5.
C30_Witness ==
    /\ SteppedOnly
    /\ finished
    /\ n = 8
    /\ secretF = 5
    /\ findBreakIndex(sequence, secretF) = 1
    /\ drops = <<4, 7, 5>>
    /\ foundFloor = <<5>>

\* Every drop of ds has the same break / no-break outcome under the secrets
\* f1 and f2.
SameOutcomes(ds, f1, f2) ==
    \A i \in 1..Len(ds) : testBreaks(ds[i], f1) = testBreaks(ds[i], f2)

\* C29: the planned sequence is a function of n alone, and the floor a
\* step() tests is the floor it would test under any other secret of the
\* same n that gives every drop made so far the same outcome: the choice
\* depends on secretF only through the outcomes of the drops.
C29_NoPeeking ==
    [][(ret'.op = "step" /\ ~finished) =>
        LET chosen == stepChoice(sequence, drops, secretF)
        IN  /\ sequence = PlanSequence(n, ComputeK(n))
            /\ IF chosen = <<>>
               THEN ret'.action = "finished" /\ drops' = drops
               ELSE ret'.floorTested = chosen[1] /\ drops' = Append(drops, chosen[1])
            /\ \A f2 \in 0..(n - 1) :
                  SameOutcomes(drops, secretF, f2) =>
                      stepChoice(sequence, drops, f2) = chosen]_vars

\* C29 witness: n = 10, secretF = 5, after the probes 4 (safe) and 7 (breaks),
\* which the secrets 6 and 7 answer alike: the third step() tested floor 5,
\* the floor it would test under those secrets too.
C29_Witness ==
    /\ SteppedOnly
    /\ ret.op = "step"
    /\ n = 10
    /\ secretF = 5
    /\ drops = <<4, 7, 5>>
    /\ ret.floorTested = 5
    /\ SameOutcomes(<<4, 7>>, secretF, 6)
    /\ SameOutcomes(<<4, 7>>, secretF, 7)
    /\ stepChoice(sequence, <<4, 7>>, 7) = <<5>>

\* An automatic playback is in progress.
InPlayback == autoRunning /\ playback > 0

\* C23: while a playback is in progress nothing but its loop writes
\* stepIndex, step() is not invoked, and the props and the solver state are
\* not changed.
C23_PlaybackIsOnlyWriter ==
    [][InPlayback =>
        /\ UNCHANGED <<n, secretF, k, sequence, drops, foundFloor, totalDrops,
                       finished>>
        /\ stepIndex' # stepIndex =>
              (playback' = playback - 1 /\ stepIndex' = stepIndex + 1)
        /\ ~(ret'.op = "step" /\ stepIndex' # stepIndex)]_vars

\* C24: right after a valid configuration has been planned (drops empty,
\* stepIndex 0, not finished) the Next control is enabled.
C24_NextEnabledAfterPlanning ==
    (/\ n > 0
     /\ sequence = PlanSequence(n, k)
     /\ drops = <<>>
     /\ stepIndex = 0
     /\ ~finished) => NextEnabled

\* C28: once the playback of a Run Simulation pressed on valid inputs
\* (n', f') has ended, with no other user event since the press, the solver is
\* finished with foundFloor = f', drops is the search for (n', f'), and
\* stepIndex is the length of drops.
C28_RunUsesAppliedInputs ==
    (settling = "valid" /\ playback = 0 /\ ~autoRunning) =>
        LET nn == parseInt(nText)[1]
            ff == parseInt(fText)[1]
            search == runAllResult(PlanSequence(nn, ComputeK(nn)), nn, ff)
        IN  /\ n = nn
            /\ secretF = ff
            /\ finished
            /\ foundFloor = <<ff>>
            /\ drops = search.simDrops
            /\ stepIndex = Len(drops)

====
